---- MODULE Spec2Model ----
(***************************************************************************)
(* State-machine model of the rendering core of                            *)
(* src/VIB34D_WORKING_CORE_ARCHITECTURE.js: GeometryManager,               *)
(* ProjectionManager, ShaderManager and HypercubeCore, together with the   *)
(* platform pieces the core talks to (the frame scheduler, the timer       *)
(* queue, the canvas and the WebGL context).                               *)
(*                                                                         *)
(* Conventions.  Every method of the source is an operator from a "world"  *)
(* record w to a world record; an action applies the handler the platform  *)
(* (or the caller) invokes and stores the resulting world.  Numbers are    *)
(* kept in thousandths (morphFactor 0.5 is 500, a time of 1 s is 1000).    *)
(* JavaScript null in animationFrameId is the value 0 (both are falsy and  *)
(* request ids are positive).  A plain JavaScript object is a sequence of  *)
(* <<key, value>> pairs, so that key order, which JSON.stringify shows,    *)
(* is part of the value.  A GPU handle is a record [ctx |-> e, ...] naming *)
(* the context generation e it was created under; JavaScript null for a    *)
(* handle is the record Null.                                              *)
(***************************************************************************)
EXTENDS Integers, Sequences, FiniteSets, TLC

VARIABLES state, shaderManager, geometryManager, aPositionLoc, quadBuffer,
          canvas, gl, rafQueue, timers, clock, lossNotice, attemptsMade,
          selectionChanges, stoppedByCaller, compiles

vars == <<state, shaderManager, geometryManager, aPositionLoc, quadBuffer,
          canvas, gl, rafQueue, timers, clock, lossNotice, attemptsMade,
          selectionChanges, stoppedByCaller, compiles>>

(***************************************************************************)
(* Bounds of the model.                                                    *)
(***************************************************************************)
\* the instant at which the behaviour takes place, in milliseconds since the
\* page was loaded, is one of 1..MaxClock
MaxClock == 1
\* at most MaxFrames frame callbacks are pending at a time
MaxFrames == 2
\* the context is lost at most MaxLosses times
MaxLosses == 1
\* the layout enlarges the canvas at most MaxResizes times
MaxResizes == 1
\* selection changes that wait for a composition are counted up to
\* MaxSelections
MaxSelections == 2
\* successful compiles of one stage identifier are counted up to MaxCompiles
MaxCompiles == 2

(***************************************************************************)
(* Small helpers for JavaScript values.                                    *)
(***************************************************************************)
Null == [null |-> TRUE]

Truthy(h) == "ctx" \in DOMAIN h

RECURSIVE HasKey(_, _)
HasKey(pairs, k) ==
    IF pairs = <<>> THEN FALSE
    ELSE IF Head(pairs)[1] = k THEN TRUE ELSE HasKey(Tail(pairs), k)

RECURSIVE GetKey(_, _)
GetKey(pairs, k) ==
    IF Head(pairs)[1] = k THEN Head(pairs)[2] ELSE GetKey(Tail(pairs), k)

RECURSIVE PutKey(_, _, _)
PutKey(pairs, k, v) ==
    IF pairs = <<>> THEN << <<k, v>> >>
    ELSE IF Head(pairs)[1] = k THEN << <<k, v>> >> \o Tail(pairs)
    ELSE << Head(pairs) >> \o PutKey(Tail(pairs), k, v)

\* { ...oldValue, ...newValue }: the keys of oldValue keep their places, the
\* keys of newValue overwrite or are appended in their own order; spreading
\* null or a number contributes no key.
RECURSIVE SpreadPairs(_, _)
SpreadPairs(old, new) ==
    IF new = <<>> THEN old
    ELSE SpreadPairs(PutKey(old, Head(new)[1], Head(new)[2]), Tail(new))

Spread(oldValue, newValue) ==
    IF newValue.kind = "object" THEN SpreadPairs(oldValue, newValue.pairs)
    ELSE oldValue

\* JSON.stringify(oldValue) !== JSON.stringify(newValue) for a stored plain
\* object against an arbitrary new value: the texts agree only when the new
\* value is an object with the same keys in the same order and equal values.
JsonDiffersObject(oldValue, newValue) ==
    IF newValue.kind = "object" THEN oldValue # newValue.pairs ELSE TRUE

(***************************************************************************)
(* Uniform names.                                                          *)
(***************************************************************************)
ScalarUniforms ==
    {"u_dimension", "u_morphFactor", "u_rotationSpeed", "u_universeModifier",
     "u_patternIntensity", "u_gridDensity", "u_lineThickness", "u_shellWidth",
     "u_tetraThickness", "u_glitchIntensity", "u_colorShift"}

AudioUniforms == {"u_audioBass", "u_audioMid", "u_audioHigh"}

ColorUniforms == {"u_primaryColor", "u_secondaryColor", "u_backgroundColor"}

\* the uniform declarations of the base fragment template
DeclaredUniforms ==
    {"u_resolution", "u_time"} \cup ScalarUniforms \cup AudioUniforms
        \cup ColorUniforms

(***************************************************************************)
(* GeometryManager and ProjectionManager.                                  *)
(***************************************************************************)
DefaultGeometry == "hypercube"

DefaultProjection == "perspective"

\* names registered by _initGeometries / _initProjections
Geometries ==
    {"hypercube", "hypersphere", "hypertetrahedron", "torus", "klein",
     "fractal", "wave", "crystal"}

Projections == {"perspective", "orthographic", "stereographic"}

\* A geometry provider is modelled by the name of the shader text its
\* getShaderCode() returns: the registered name for the eight built-in
\* classes, and two texts a caller's subclass of BaseGeometry may return.
\* a text that defines no calculateLattice function
LacksLattice == "lacksLattice"
\* a text that defines calculateLattice and holds, in a comment, the text
\* //__GEOMETRY_CODE_INJECTION_POINT__
KeepsMarker == "keepsMarker"
\* a text of the caller that defines calculateLattice and reads u_gridDensity
CallerLattice == "callerLattice"

\* geomGLSL.includes('calculateLattice')
IncludesCalculateLattice(geomGLSL) == geomGLSL # LacksLattice

\* fsSource.includes('//__GEOMETRY_CODE_INJECTION_POINT__') after the two
\* replacements: String.replace substitutes the first occurrence only, and
\* the inserted text is not searched again
IncludesInjectionPoint(geomGLSL) == geomGLSL = KeepsMarker

\* new GeometryManager(): geometries after _initGeometries
NewGeometryManager == [geometries |-> [n \in Geometries |-> n]]

\* instance = [isBaseGeometry |-> instance instanceof BaseGeometry,
\*             code |-> the text its getShaderCode() returns]
registerGeometry(gm, name, instance) ==
    IF ~instance.isBaseGeometry THEN gm
    ELSE [gm EXCEPT !.geometries =
             [x \in DOMAIN @ \cup {name} |->
                 IF x = name THEN instance.code ELSE @[x]]]

\* a variant of getGeometry that yields, for a name that is not registered,
\* a provider with no calculateLattice where the code yields the default one
getGeometry_WithoutDefault(gm, name) ==
    IF name \in DOMAIN gm.geometries THEN gm.geometries[name]
    ELSE LacksLattice

\* the provider a lookup yields: the named one, or the default one
getGeometry(gm, name) ==
    IF name \in DOMAIN gm.geometries THEN gm.geometries[name]
    ELSE gm.geometries[DefaultGeometry]

getProjection(name) == IF name \in Projections THEN name ELSE DefaultProjection

\* uniforms referenced by the shader text a geometry provider returns
GeometryUniforms(g) ==
    CASE g = "hypercube" ->
            {"u_gridDensity", "u_audioBass", "u_lineThickness", "u_audioMid",
             "u_time", "u_dimension", "u_morphFactor", "u_audioHigh",
             "u_rotationSpeed", "u_universeModifier"}
      [] g = "hypersphere" ->
            {"u_gridDensity", "u_audioBass", "u_shellWidth", "u_audioMid",
             "u_time", "u_dimension", "u_morphFactor", "u_audioHigh",
             "u_rotationSpeed", "u_universeModifier"}
      [] g = "hypertetrahedron" ->
            {"u_gridDensity", "u_audioBass", "u_tetraThickness", "u_audioMid",
             "u_time", "u_dimension", "u_morphFactor", "u_audioHigh",
             "u_rotationSpeed", "u_universeModifier"}
      [] g = "torus" -> {"u_gridDensity", "u_audioBass", "u_universeModifier"}
      [] g = "klein" -> {"u_gridDensity", "u_audioBass"}
      [] g = "fractal" -> {"u_gridDensity"}
      [] g = "wave" -> {"u_gridDensity", "u_time"}
      [] OTHER -> {"u_gridDensity"}

\* whether the geometry's calculateLattice calls project4Dto3D
CallsProjection(g) == g \in {"hypercube", "hypersphere", "hypertetrahedron"}

ProjectionUniforms(p) ==
    CASE p = "perspective" -> {"u_morphFactor", "u_audioMid"}
      [] p = "orthographic" -> {"u_morphFactor", "u_audioMid"}
      [] OTHER -> {"u_morphFactor", "u_audioHigh"}

\* uniforms referenced by main() of the base fragment template
BaseFragmentUniforms ==
    {"u_resolution", "u_time", "u_rotationSpeed", "u_audioMid", "u_audioHigh",
     "u_backgroundColor", "u_primaryColor", "u_secondaryColor", "u_colorShift",
     "u_patternIntensity"}

\* the uniforms that have a location in a program linked from the template
\* with the code of geometry g and projection p injected: a declared uniform
\* that no reachable function reads has none.
ActiveUniforms(g, p) ==
    BaseFragmentUniforms \cup GeometryUniforms(g)
        \cup (IF CallsProjection(g) THEN ProjectionUniforms(p) ELSE {})

(***************************************************************************)
(* What one run of a handler did besides changing the state: the calls it  *)
(* made to the caller's callbacks and to the GPU.  The record is a field   *)
(* of the world a handler returns; it starts as Obs0 in every step, is     *)
(* never read by a handler and is not part of the state.                   *)
(***************************************************************************)
Obs0 ==
    [onError |-> 0, onRender |-> 0, requested |-> 0, composed |-> 0,
     staleReturned |-> FALSE, uploadRan |-> FALSE, dirtyAtUpload |-> {},
     uploaded |-> {}, lookedUp |-> {}, cleared |-> FALSE, drew |-> FALSE,
     threw |-> FALSE, gaveUp |-> FALSE, compositionFailed |-> FALSE,
     composedFrom |-> <<>>, linked |-> 0, deletedPrograms |-> {},
     compiled |-> <<>>, madeShaderManager |-> FALSE]

\* this.state.callbacks.onError?.(error): the caller's callback is invoked
onError(w) == [w EXCEPT !.obs.onError = @ + 1]

(***************************************************************************)
(* The platform: frame scheduler and timers.                               *)
(***************************************************************************)
\* requestAnimationFrame: a new request id, never one that is pending or
\* still stored in state.animationFrameId
FreshFrameId(w) ==
    CHOOSE i \in 1..(Len(w.raf) + 2) :
        /\ i # w.st["animationFrameId"]
        /\ \A k \in 1..Len(w.raf) : w.raf[k] # i

\* this.state.animationFrameId = requestAnimationFrame(this._render.bind(this))
requestAnimationFrame(w) ==
    LET id == FreshFrameId(w)
    IN [w EXCEPT !.raf = Append(@, id),
                 !.st["animationFrameId"] = id,
                 !.obs.requested = @ + 1]

cancelAnimationFrame(w, id) ==
    [w EXCEPT !.raf = SelectSeq(@, LAMBDA x : x # id)]

\* setTimeout(callback, delay): kind is "attempt" for the reacquisition
\* callback (500 ms) and "retry" for the re-entry callback (1000 ms); the
\* handle setTimeout returns is dropped by the caller.
setTimeout(w, kind) == [w EXCEPT !.timers[kind] = @ + 1]

(***************************************************************************)
(* ShaderManager.                                                          *)
(***************************************************************************)
baseVertexShaderName == <<"base-vertex">>

\* the text _getBaseFragmentShaderSource returns, given by the injection
\* points it holds: //__GEOMETRY_CODE_INJECTION_POINT__ and
\* //__PROJECTION_CODE_INJECTION_POINT__
BaseFragmentShaderSource == [geometryPoint |-> TRUE, projectionPoint |-> TRUE]

\* the manager the HypercubeCore constructor builds; shaderSources is the
\* entry of the base fragment template
NewShaderManager ==
    [compiledShaders |-> <<>>, programs |-> <<>>, uniformLocations |-> <<>>,
     attributeLocations |-> <<>>, currentProgramName |-> "",
     shaderSources |-> BaseFragmentShaderSource]

\* this.shaderSources[name] = { source, type } for the base fragment name
_registerShaderSource(sm, source) == [sm EXCEPT !.shaderSources = source]

\* new ShaderManager(gl, geometryManager, projectionManager): the three
\* arguments are given as "was it passed"
ShaderManagerConstructor(glGiven, geometryManagerGiven, projectionManagerGiven) ==
    IF ~glGiven \/ ~geometryManagerGiven \/ ~projectionManagerGiven
    THEN [threw |-> TRUE, sm |-> NewShaderManager]
    ELSE [threw |-> FALSE, sm |-> NewShaderManager]

\* the methods class ShaderManager defines
ShaderManagerMethods ==
    {"_mergeDefaults", "_initShaderTemplates", "_registerShaderSource",
     "_compileShader", "_logShaderSourceWithError", "_createProgram",
     "createDynamicProgram", "useProgram", "getUniformLocation",
     "getAttributeLocation", "_getBaseVertexShaderSource",
     "_getBaseFragmentShaderSource"}

Lookup(f, k) == IF k \in DOMAIN f THEN f[k] ELSE Null

Store(f, k, v) == [x \in DOMAIN f \cup {k} |-> IF x = k THEN v ELSE f[x]]

Delete(f, k) == [x \in DOMAIN f \ {k} |-> f[x]]

\* a variant of _compileShader that does not look in the cache
_compileShader_IgnoringCache(w, shaderIdentifier, source, compileOk) ==
    LET shader == [ctx |-> w.gl.epoch, src |-> source]
    IN IF w.gl.lost \/ ~compileOk
       THEN [w |-> [w EXCEPT !.sm.compiledShaders =
                                  Store(@, shaderIdentifier, Null)],
             ret |-> Null]
       ELSE [w |-> [w EXCEPT !.sm.compiledShaders =
                                  Store(@, shaderIdentifier, shader),
                             !.obs.compiled =
                                 Append(@, <<shaderIdentifier, TRUE>>)],
             ret |-> shader]

_compileShader(w, shaderIdentifier, source, compileOk) ==
    LET cached == Lookup(w.sm.compiledShaders, shaderIdentifier)
        shader == [ctx |-> w.gl.epoch, src |-> source]
    IN IF Truthy(cached)
       THEN [w |-> [w EXCEPT !.obs.staleReturned =
                                  @ \/ cached.ctx # w.gl.epoch],
             ret |-> cached]
       ELSE IF w.gl.lost
       THEN [w |-> [w EXCEPT !.sm.compiledShaders =
                                  Store(@, shaderIdentifier, Null)],
             ret |-> Null]
       ELSE IF ~compileOk
       THEN [w |-> [w EXCEPT !.sm.compiledShaders =
                                  Store(@, shaderIdentifier, Null),
                             !.obs.compiled =
                                 Append(@, <<shaderIdentifier, FALSE>>)],
             ret |-> Null]
       ELSE [w |-> [w EXCEPT !.sm.compiledShaders =
                                  Store(@, shaderIdentifier, shader),
                             !.obs.compiled =
                                 Append(@, <<shaderIdentifier, TRUE>>)],
             ret |-> shader]

_createProgram(w, programName, vertexShader, fragmentShader, linkOk) ==
    LET old == Lookup(w.sm.programs, programName)
        w1 == IF Truthy(old)
              THEN [w EXCEPT !.sm.programs = Delete(@, programName),
                             !.sm.uniformLocations = Delete(@, programName),
                             !.sm.attributeLocations = Delete(@, programName),
                             !.obs.deletedPrograms = @ \cup {old}]
              ELSE w
        program == [ctx |-> w.gl.epoch, src |-> fragmentShader.src]
        \* a shader created under an earlier context is an invalidated
        \* object: attaching it is an error and the link fails
        linked == /\ vertexShader.ctx = w.gl.epoch
                  /\ fragmentShader.ctx = w.gl.epoch
                  /\ linkOk
    IN IF w.gl.lost
       THEN [w |-> w1, ret |-> Null]
       ELSE IF ~linked
       THEN [w |-> [w1 EXCEPT !.sm.programs = Store(@, programName, Null),
                              !.obs.linked = @ + 1],
             ret |-> Null]
       ELSE [w |-> [w1 EXCEPT !.sm.programs = Store(@, programName, program),
                              !.obs.linked = @ + 1,
                              !.sm.uniformLocations =
                                  Store(@, programName, <<>>),
                              !.sm.attributeLocations =
                                  Store(@, programName, <<>>)],
             ret |-> program]

\* gpu = [vs |-> .., fs |-> .., link |-> ..]: whether the driver compiles the
\* vertex stage, compiles the fragment stage and links the program
createDynamicProgram(w, programName, geometryTypeName, projectionMethodName, gpu) ==
    LET geomGLSL == getGeometry(w.gm, geometryTypeName)
        projGLSL == getProjection(projectionMethodName)
        fsId == <<"fragment", geometryTypeName, projectionMethodName>>
        \* return null
        Fails(v) ==
            [w |-> [v EXCEPT !.obs.compositionFailed = TRUE], ret |-> Null]
        \* the steps after each call, given what the call returned
        AfterLink(newProg) ==
            IF Truthy(newProg.ret) THEN newProg
            ELSE Fails(IF newProg.w.sm.currentProgramName = programName
                       THEN [newProg.w EXCEPT !.sm.currentProgramName = ""]
                       ELSE newProg.w)
        AfterFragment(vertexShader, fs) ==
            IF ~Truthy(fs.ret) THEN Fails(fs.w)
            ELSE AfterLink(_createProgram(fs.w, programName, vertexShader,
                                          fs.ret, gpu.link))
        \* fsSource.replace(point, code) replaces a point the template
        \* holds and leaves a template without it as it is
        fsInfo == w.sm.shaderSources
        pointLeft == fsInfo.geometryPoint /\ IncludesInjectionPoint(geomGLSL)
        \* main() of the template calls calculateLattice, and the geometry
        \* code may call project4Dto3D: a source in which a called function
        \* was not injected does not compile
        Compiles ==
            /\ fsInfo.geometryPoint
            /\ CallsProjection(geomGLSL) => fsInfo.projectionPoint
        AfterVertex(vs) ==
            IF ~Truthy(vs.ret) THEN Fails(vs.w)
            ELSE IF ~IncludesCalculateLattice(geomGLSL) THEN Fails(vs.w)
            ELSE IF pointLeft THEN Fails(vs.w)
            ELSE AfterFragment(vs.ret,
                     _compileShader(vs.w, fsId, <<geomGLSL, projGLSL>>,
                                    gpu.fs /\ Compiles))
    IN AfterVertex(_compileShader(
           [w EXCEPT !.obs.composed = @ + 1,
                     !.obs.composedFrom =
                         Append(@, <<geometryTypeName, projectionMethodName>>)],
           baseVertexShaderName, <<"vertex">>, gpu.vs))

useProgram(w, programName) ==
    LET program == Lookup(w.sm.programs, programName)
    IN IF Truthy(program)
       THEN [w |-> [w EXCEPT !.sm.currentProgramName = programName],
             ret |-> TRUE]
       ELSE [w |-> IF w.sm.currentProgramName = programName
                   THEN [w EXCEPT !.sm.currentProgramName = ""]
                   ELSE w,
             ret |-> FALSE]

\* gl.getUniformLocation(program, name): a location exists only for an
\* active uniform of a program of the live context
glGetUniformLocation(w, program, name) ==
    /\ ~w.gl.lost
    /\ program.ctx = w.gl.epoch
    /\ name \in ActiveUniforms(program.src[1], program.src[2])

\* ret is TRUE for a location, FALSE for null
getUniformLocation(w, name) ==
    LET cur == w.sm.currentProgramName
        program == Lookup(w.sm.programs, cur)
        cache == w.sm.uniformLocations[cur]
        loc == glGetUniformLocation(w, program, name)
    IN IF cur = "" \/ ~Truthy(program)
       THEN [w |-> w, ret |-> FALSE]
       ELSE IF name \in DOMAIN cache
       THEN [w |-> w, ret |-> cache[name]]
       ELSE [w |-> [w EXCEPT !.sm.uniformLocations[cur] =
                                  Store(@, name, loc),
                             !.obs.lookedUp = @ \cup {name}],
             ret |-> loc]

\* ret is [loc |-> n] for a location, Null for null; the base vertex shader
\* reads a_position, so a live program has it at location 0
getAttributeLocation(w, name) ==
    LET cur == w.sm.currentProgramName
        program == Lookup(w.sm.programs, cur)
        cache == w.sm.attributeLocations[cur]
        loc == IF ~w.gl.lost /\ program.ctx = w.gl.epoch
               THEN [loc |-> 0] ELSE Null
    IN IF cur = "" \/ ~Truthy(program)
       THEN [w |-> w, ret |-> Null]
       ELSE IF name \in DOMAIN cache
       THEN [w |-> w, ret |-> cache[name]]
       ELSE [w |-> [w EXCEPT !.sm.attributeLocations[cur] =
                                  Store(@, name, loc)],
             ret |-> loc]

(***************************************************************************)
(* HypercubeCore.                                                          *)
(***************************************************************************)
DEFAULT_STATE ==
    [startTime |-> 0, lastUpdateTime |-> 0, deltaTime |-> 0, time |-> 0,
     resolution |-> <<0, 0>>,
     geometryType |-> "hypercube", projectionMethod |-> "perspective",
     dimensions |-> 4000, morphFactor |-> 500, rotationSpeed |-> 200,
     universeModifier |-> 1000, patternIntensity |-> 1000,
     gridDensity |-> 8000, lineThickness |-> 30, shellWidth |-> 25,
     tetraThickness |-> 35, glitchIntensity |-> 0, colorShift |-> 0,
     audioLevels |-> << <<"bass", 0>>, <<"mid", 0>>, <<"high", 0>> >>,
     colorScheme |-> << <<"primary", <<1000, 200, 800>> >>,
                        <<"secondary", <<200, 1000, 1000>> >>,
                        <<"background", <<50, 0, 200>> >> >>,
     needsShaderUpdate |-> FALSE, isRendering |-> FALSE,
     animationFrameId |-> 0, shaderProgramName |-> "maleficarumViz",
     callbacks |-> << <<"onRender", "fn">>, <<"onError", "fn">> >>]
    @@ ("_dirtyUniforms" :> {})

\* the uniform names the switch of _markUniformDirty pushes for a state key
UniformNamesOf(stateKey) ==
    CASE stateKey = "time" -> {"u_time"}
      [] stateKey = "resolution" -> {"u_resolution"}
      [] stateKey = "dimensions" -> {"u_dimension"}
      [] stateKey = "morphFactor" -> {"u_morphFactor"}
      [] stateKey = "rotationSpeed" -> {"u_rotationSpeed"}
      [] stateKey = "universeModifier" -> {"u_universeModifier"}
      [] stateKey = "patternIntensity" -> {"u_patternIntensity"}
      [] stateKey = "gridDensity" -> {"u_gridDensity"}
      [] stateKey = "lineThickness" -> {"u_lineThickness"}
      [] stateKey = "shellWidth" -> {"u_shellWidth"}
      [] stateKey = "tetraThickness" -> {"u_tetraThickness"}
      [] stateKey = "glitchIntensity" -> {"u_glitchIntensity"}
      [] stateKey = "colorShift" -> {"u_colorShift"}
      [] stateKey = "audioLevels" -> AudioUniforms
      [] stateKey = "colorScheme" -> ColorUniforms
      [] OTHER -> {}

_markUniformDirty(w, stateKey) ==
    [w EXCEPT !.st["_dirtyUniforms"] = @ \cup UniformNamesOf(stateKey)]

\* the keys of DEFAULT_STATE that _markAllUniformsDirty skips
NonUniformKeys ==
    {"_dirtyUniforms", "isRendering", "animationFrameId", "callbacks",
     "startTime", "lastUpdateTime", "deltaTime", "needsShaderUpdate",
     "geometryType", "projectionMethod", "shaderProgramName"}

\* a variant of _markAllUniformsDirty that leaves out the grouped
\* parameters: the interaction channels and the colours
_markAllUniformsDirty_ScalarsOnly(w) ==
    [w EXCEPT !.st["_dirtyUniforms"] =
        UNION {UniformNamesOf(key) :
                  key \in DOMAIN DEFAULT_STATE
                              \ (NonUniformKeys \cup {"audioLevels", "colorScheme"})}]

_markAllUniformsDirty(w) ==
    [w EXCEPT !.st["_dirtyUniforms"] =
        UNION {UniformNamesOf(key) : key \in DOMAIN DEFAULT_STATE \ NonUniformKeys}]

\* gl.viewport(0, 0, gl.canvas.width, gl.canvas.height) and the blend state:
\* no state of the model depends on them
_setupWebGLState(w) == w

\* gl.createBuffer() for the quad
_initBuffers(w) == [w EXCEPT !.quadBuffer = [ctx |-> w.gl.epoch]]

stop(w) ==
    IF ~w.st["isRendering"] THEN w
    ELSE LET w1 == IF w.st["animationFrameId"] # 0
                   THEN cancelAnimationFrame(w, w.st["animationFrameId"])
                   ELSE w
         IN [w1 EXCEPT !.st["isRendering"] = FALSE,
                       !.st["animationFrameId"] = 0]

\* a variant of _updateShaderIfNeeded that composes the program a second
\* time when the flag is set
_updateShaderIfNeeded_ComposingTwice(w, gpu) ==
    LET AfterAttribute(attr) ==
            _markAllUniformsDirty([attr.w EXCEPT !.aPositionLoc = attr.ret])
        AfterCompose(program) ==
            IF ~Truthy(program.ret)
            THEN [w |-> stop(onError(program.w)), ret |-> FALSE]
            ELSE [w |-> AfterAttribute(getAttributeLocation(
                            useProgram(
                                [program.w EXCEPT
                                    !.st["needsShaderUpdate"] = FALSE],
                                w.st["shaderProgramName"]).w,
                            "a_position")),
                  ret |-> TRUE]
        Again(first) ==
            AfterCompose(createDynamicProgram(first.w,
                w.st["shaderProgramName"], w.st["geometryType"],
                w.st["projectionMethod"], gpu))
    IN IF ~w.st["needsShaderUpdate"] THEN [w |-> w, ret |-> TRUE]
       ELSE Again(createDynamicProgram(w, w.st["shaderProgramName"],
                w.st["geometryType"], w.st["projectionMethod"], gpu))

\* a variant of _updateShaderIfNeeded that reports a failed composition to
\* onError and lets the tick go on
_updateShaderIfNeeded_GoingOn(w, gpu) ==
    LET AfterAttribute(attr) ==
            _markAllUniformsDirty([attr.w EXCEPT !.aPositionLoc = attr.ret])
        AfterCompose(program) ==
            IF ~Truthy(program.ret)
            THEN [w |-> onError(program.w), ret |-> TRUE]
            ELSE [w |-> AfterAttribute(getAttributeLocation(
                            useProgram(
                                [program.w EXCEPT
                                    !.st["needsShaderUpdate"] = FALSE],
                                w.st["shaderProgramName"]).w,
                            "a_position")),
                  ret |-> TRUE]
    IN IF ~w.st["needsShaderUpdate"] THEN [w |-> w, ret |-> TRUE]
       ELSE AfterCompose(createDynamicProgram(w, w.st["shaderProgramName"],
                w.st["geometryType"], w.st["projectionMethod"], gpu))

_updateShaderIfNeeded(w, gpu) ==
    LET AfterAttribute(attr) ==
            _markAllUniformsDirty([attr.w EXCEPT !.aPositionLoc = attr.ret])
        AfterCompose(program) ==
            IF ~Truthy(program.ret)
            THEN [w |-> stop(onError(program.w)), ret |-> FALSE]
            ELSE [w |-> AfterAttribute(getAttributeLocation(
                            useProgram(
                                [program.w EXCEPT
                                    !.st["needsShaderUpdate"] = FALSE],
                                w.st["shaderProgramName"]).w,
                            "a_position")),
                  ret |-> TRUE]
    IN IF ~w.st["needsShaderUpdate"] THEN [w |-> w, ret |-> TRUE]
       ELSE AfterCompose(createDynamicProgram(w, w.st["shaderProgramName"],
                w.st["geometryType"], w.st["projectionMethod"], gpu))

\* typeof oldValue === 'object' && oldValue !== null && !Array.isArray(oldValue)
\* for the value stored under a key
IsPlainObject(key) ==
    key \in {"audioLevels", "colorScheme", "callbacks", "_dirtyUniforms"}

\* the sub-keys updateParameters tests with newValue.hasOwnProperty
SubKeys(key) ==
    CASE key = "colorScheme" -> <<"primary", "secondary", "background">>
      [] key = "audioLevels" -> <<"bass", "mid", "high">>
      [] OTHER -> <<>>

\* newValue.hasOwnProperty(sub): a number has no own property
hasOwnProperty(newValue, sub) ==
    newValue.kind = "object" /\ HasKey(newValue.pairs, sub)

\* the key text 'colorScheme.primary', 'audioLevels.bass', ...
DottedKey(prefix, sub) ==
    CASE prefix = "colorScheme" /\ sub = "primary" -> "colorScheme.primary"
      [] prefix = "colorScheme" /\ sub = "secondary" -> "colorScheme.secondary"
      [] prefix = "colorScheme" /\ sub = "background" -> "colorScheme.background"
      [] prefix = "audioLevels" /\ sub = "bass" -> "audioLevels.bass"
      [] prefix = "audioLevels" /\ sub = "mid" -> "audioLevels.mid"
      [] OTHER -> "audioLevels.high"

\* the three if-statements of one group: each present sub-key is marked with
\* the dotted key text the code passes to _markUniformDirty
RECURSIVE MarkSubKeys(_, _, _, _)
MarkSubKeys(w, prefix, subs, newValue) ==
    IF subs = <<>> THEN w
    ELSE MarkSubKeys(
            IF hasOwnProperty(newValue, Head(subs))
            THEN _markUniformDirty(w, DottedKey(prefix, Head(subs)))
            ELSE w,
            prefix, Tail(subs), newValue)

\* the body of the for-in loop for the remaining pairs; needs is the local
\* shaderNeedsUpdate.  A TypeError leaves the loop and the method at once.
RECURSIVE UpdateLoop(_, _, _)
UpdateLoop(w, newParams, needs) ==
    IF newParams = <<>>
    THEN IF needs THEN [w EXCEPT !.st["needsShaderUpdate"] = TRUE] ELSE w
    ELSE
      LET key == Head(newParams)[1]
          newValue == Head(newParams)[2]
          rest == Tail(newParams)
      IN IF key \notin DOMAIN w.st THEN UpdateLoop(w, rest, needs)
         ELSE IF IsPlainObject(key)
         THEN IF JsonDiffersObject(w.st[key], newValue)
              THEN LET w1 == [w EXCEPT !.st[key] = Spread(@, newValue)]
                   IN IF SubKeys(key) # <<>> /\ newValue.kind = "null"
                      THEN [w1 EXCEPT !.obs.threw = TRUE]
                      ELSE UpdateLoop(
                               MarkSubKeys(w1, key, SubKeys(key), newValue),
                               rest, needs)
              ELSE UpdateLoop(w, rest, needs)
         ELSE IF w.st[key] # newValue
         THEN UpdateLoop(
                  _markUniformDirty([w EXCEPT !.st[key] = newValue], key),
                  rest,
                  needs \/ key \in {"geometryType", "projectionMethod"})
         ELSE UpdateLoop(w, rest, needs)

\* a variant of updateParameters that marks every key it is given, without
\* regard to the comparison with the stored value
updateParameters_MarkingEveryKey(w, newParams) ==
    [UpdateLoop(w, newParams, FALSE) EXCEPT
        !.st["_dirtyUniforms"] =
            @ \cup UNION {UniformNamesOf(newParams[i][1]) :
                              i \in 1..Len(newParams)}]

updateParameters(w, newParams) == UpdateLoop(w, newParams, FALSE)

start(w, gpu) ==
    LET w1 == [w EXCEPT !.st["isRendering"] = TRUE,
                        !.st["startTime"] = w.clock,
                        !.st["time"] = 0,
                        !.st["lastUpdateTime"] = w.clock]
        AfterShader(upd) ==
            IF ~upd.ret THEN [upd.w EXCEPT !.st["isRendering"] = FALSE]
            ELSE requestAnimationFrame(_markAllUniformsDirty(upd.w))
    IN IF w.st["isRendering"] THEN w
       ELSE AfterShader(_updateShaderIfNeeded(w1, gpu))

_checkResize(w) ==
    IF w.canvas.width # w.canvas.clientWidth
       \/ w.canvas.height # w.canvas.clientHeight
    THEN _markUniformDirty(
             [w EXCEPT !.canvas.width = w.canvas.clientWidth,
                       !.canvas.height = w.canvas.clientHeight,
                       !.st["resolution"] =
                           <<w.canvas.clientWidth, w.canvas.clientHeight>>],
             "resolution")
    ELSE w

\* the forEach over the dirty names other than u_time: a name with a
\* location is uploaded, a name without one goes to uniformsToRetry
RECURSIVE UploadDirty(_, _, _)
UploadDirty(w, names, uniformsToRetry) ==
    IF names = {} THEN [w EXCEPT !.st["_dirtyUniforms"] = uniformsToRetry]
    ELSE LET name == CHOOSE n \in names : TRUE
             AfterLookup(loc) ==
                 IF loc.ret
                 THEN UploadDirty(
                          [loc.w EXCEPT !.obs.uploaded = @ \cup {name}],
                          names \ {name}, uniformsToRetry)
                 ELSE UploadDirty(loc.w, names \ {name},
                                  uniformsToRetry \cup {name})
         IN AfterLookup(getUniformLocation(w, name))

\* a variant of _setUniforms that ends with an empty dirty set: the names
\* without a location are dropped instead of kept
_setUniforms_DroppingUnresolved(w) ==
    LET programName == w.st["shaderProgramName"]
        AfterTime(w1) ==
            [UploadDirty([w1 EXCEPT !.obs.uploadRan = TRUE,
                                    !.obs.dirtyAtUpload = w.st["_dirtyUniforms"]],
                         w1.st["_dirtyUniforms"] \ {"u_time"}, {})
                EXCEPT !.st["_dirtyUniforms"] = {}]
        AfterTimeLookup(timeLoc) ==
            AfterTime(IF timeLoc.ret
                      THEN [timeLoc.w EXCEPT
                               !.obs.uploaded = @ \cup {"u_time"}]
                      ELSE [timeLoc.w EXCEPT
                               !.st["_dirtyUniforms"] = @ \cup {"u_time"}])
        AfterUse(use) ==
            IF ~use.ret \/ use.w.sm.currentProgramName # programName
            THEN use.w
            ELSE AfterTimeLookup(getUniformLocation(use.w, "u_time"))
    IN AfterUse(useProgram(w, programName))

_setUniforms(w) ==
    LET programName == w.st["shaderProgramName"]
        AfterTime(w1) ==
            UploadDirty([w1 EXCEPT !.obs.uploadRan = TRUE,
                                   !.obs.dirtyAtUpload = w.st["_dirtyUniforms"]],
                        w1.st["_dirtyUniforms"] \ {"u_time"}, {})
        AfterTimeLookup(timeLoc) ==
            AfterTime(IF timeLoc.ret
                      THEN [timeLoc.w EXCEPT
                               !.obs.uploaded = @ \cup {"u_time"}]
                      ELSE [timeLoc.w EXCEPT
                               !.st["_dirtyUniforms"] = @ \cup {"u_time"}])
        AfterUse(use) ==
            IF ~use.ret \/ use.w.sm.currentProgramName # programName
            THEN use.w
            ELSE AfterTimeLookup(getUniformLocation(use.w, "u_time"))
    IN AfterUse(useProgram(w, programName))

\* the retry ceiling written in _attemptContextRecovery
RecoveryCeiling == 3

\* the uniforms the recovery callback lists for re-upload
RecoveryDirtyUniforms ==
    {"u_resolution", "u_time", "u_dimension", "u_morphFactor",
     "u_rotationSpeed", "u_universeModifier", "u_patternIntensity",
     "u_gridDensity", "u_lineThickness", "u_shellWidth",
     "u_tetraThickness", "u_glitchIntensity", "u_colorShift",
     "u_audioBass", "u_audioMid", "u_audioHigh", "u_primaryColor"}

\* this.state.contextRecoveryAttempts || 0: the key is absent until the
\* first recovery writes it
RecoveryAttempts(w) ==
    IF "contextRecoveryAttempts" \in DOMAIN w.st
    THEN w.st["contextRecoveryAttempts"] ELSE 0

\* the ceiling branch shared by both places that give up
GiveUp(w) == [onError(stop(w)) EXCEPT !.obs.gaveUp = TRUE]

\* a variant of _attemptContextRecovery whose guard lets one more attempt
\* through: > where the source has >=
_attemptContextRecovery_LateCeiling(w) ==
    LET w1 == [w EXCEPT !.st = [k \in DOMAIN w.st \cup {"contextRecoveryAttempts"} |->
                                    IF k = "contextRecoveryAttempts"
                                    THEN RecoveryAttempts(w) + 1
                                    ELSE w.st[k]]]
        w2 == IF w1.st["animationFrameId"] # 0
              THEN [cancelAnimationFrame(w1, w1.st["animationFrameId"])
                       EXCEPT !.st["animationFrameId"] = 0]
              ELSE w1
    IN IF RecoveryAttempts(w) > RecoveryCeiling THEN GiveUp(w)
       ELSE setTimeout(w2, "attempt")

_attemptContextRecovery(w) ==
    LET w1 == [w EXCEPT !.st = [k \in DOMAIN w.st \cup {"contextRecoveryAttempts"} |->
                                    IF k = "contextRecoveryAttempts"
                                    THEN RecoveryAttempts(w) + 1
                                    ELSE w.st[k]]]
        w2 == IF w1.st["animationFrameId"] # 0
              THEN [cancelAnimationFrame(w1, w1.st["animationFrameId"])
                       EXCEPT !.st["animationFrameId"] = 0]
              ELSE w1
    IN IF RecoveryAttempts(w) >= RecoveryCeiling THEN GiveUp(w)
       ELSE setTimeout(w2, "attempt")

\* a variant of the catch block that puts the defaults back into the
\* interaction channels and the geometry selection
RecoveryCatch_ResettingParameters(w) ==
    IF RecoveryAttempts(w) < RecoveryCeiling
    THEN setTimeout([w EXCEPT !.st["audioLevels"] = DEFAULT_STATE["audioLevels"],
                              !.st["geometryType"] = DEFAULT_STATE["geometryType"]],
                    "retry")
    ELSE GiveUp(w)

\* the catch block of the reacquisition callback
RecoveryCatch(w) ==
    IF RecoveryAttempts(w) < RecoveryCeiling THEN setTimeout(w, "retry")
    ELSE GiveUp(w)

\* the callback _attemptContextRecovery hands to setTimeout(..., 500)
RecoveryCallback(w) ==
    LET made == ShaderManagerConstructor(TRUE, FALSE, FALSE)
        w1 == [w EXCEPT !.sm = made.sm, !.obs.madeShaderManager = TRUE]
        w2 == [w1 EXCEPT !.st["_dirtyUniforms"] = RecoveryDirtyUniforms,
                         !.st["contextRecoveryAttempts"] = 0]
    IN IF w.gl.lost THEN RecoveryCatch(w)
       ELSE IF made.threw THEN RecoveryCatch(w)
       ELSE IF "setupShaderPrograms" \notin ShaderManagerMethods
       THEN RecoveryCatch(w1)
       ELSE IF w2.st["isRendering"] THEN requestAnimationFrame(w2)
       ELSE w2

\* this.state.callbacks.onRender?.(this.state): the caller's callback is
\* invoked; it does not call back into the core
onRender(w) == [w EXCEPT !.obs.onRender = @ + 1]

\* drawThrows: whether a call of the draw block throws
DrawQuad(w, drawThrows) ==
    IF Truthy(w.quadBuffer) /\ "loc" \in DOMAIN w.aPositionLoc
       /\ w.aPositionLoc.loc >= 0
    THEN IF drawThrows THEN onError(stop(w))
         ELSE [w EXCEPT !.obs.drew = TRUE]
    ELSE w

\* a variant of _render whose tick body ends without requesting the next
\* frame
_render_NotRequesting(w, timestamp, gpu, drawThrows) ==
    LET startTime == IF w.st["startTime"] = 0 THEN timestamp
                     ELSE w.st["startTime"]
        currentTime == timestamp - startTime
        w1 == _markUniformDirty(
                  [w EXCEPT !.st["startTime"] = startTime,
                            !.st["deltaTime"] = currentTime - w.st["time"],
                            !.st["time"] = currentTime,
                            !.st["lastUpdateTime"] = timestamp],
                  "time")
        AfterUniforms(w3) ==
            onRender(DrawQuad([w3 EXCEPT !.obs.cleared = TRUE], drawThrows))
        AfterShader(upd) ==
            IF ~upd.ret THEN upd.w ELSE AfterUniforms(_setUniforms(upd.w))
    IN IF ~w.st["isRendering"] THEN w
       ELSE IF w.gl.lost
       THEN _attemptContextRecovery(w)
       ELSE AfterShader(_updateShaderIfNeeded(_checkResize(w1), gpu))

_render(w, timestamp, gpu, drawThrows) ==
    LET startTime == IF w.st["startTime"] = 0 THEN timestamp
                     ELSE w.st["startTime"]
        currentTime == timestamp - startTime
        w1 == _markUniformDirty(
                  [w EXCEPT !.st["startTime"] = startTime,
                            !.st["deltaTime"] = currentTime - w.st["time"],
                            !.st["time"] = currentTime,
                            !.st["lastUpdateTime"] = timestamp],
                  "time")
        AfterUniforms(w3) ==
            requestAnimationFrame(
                onRender(DrawQuad([w3 EXCEPT !.obs.cleared = TRUE],
                                  drawThrows)))
        AfterShader(upd) ==
            IF ~upd.ret THEN upd.w ELSE AfterUniforms(_setUniforms(upd.w))
    IN IF ~w.st["isRendering"] THEN w
       ELSE IF w.gl.lost
       THEN _attemptContextRecovery(w)
       ELSE AfterShader(_updateShaderIfNeeded(_checkResize(w1), gpu))

\* one run of the webglcontextrestored listener; initWebGL registers the two
\* listeners once more on every call
_reinitializeAfterContextRestore(w, gpu) ==
    LET w1 == [w EXCEPT !.canvas.listeners = @ + 1]
        w2 == _initBuffers(_setupWebGLState(w1))
        w3 == [w2 EXCEPT !.st["needsShaderUpdate"] = TRUE]
        AfterShader(w4) == IF w4.st["isRendering"] THEN start(w4, gpu) ELSE w4
    IN AfterShader(_updateShaderIfNeeded(w3, gpu).w)

\* the state the constructor leaves: the world before it, then its body
Constructor(w, gpu) ==
    LET w1 == _markAllUniformsDirty(w)
        w2 == _initBuffers(_setupWebGLState(w1))
        w3 == [w2 EXCEPT !.st["needsShaderUpdate"] = TRUE]
    IN _updateShaderIfNeeded(w3, gpu).w

(***************************************************************************)
(* Inputs of the model.                                                    *)
(***************************************************************************)
\* what the driver does with one composition: all of it succeeds, or the
\* first step that fails is the vertex compile, the fragment compile or the
\* link
GpuOutcomes ==
    { [vs |-> TRUE, fs |-> TRUE, link |-> TRUE],
      [vs |-> FALSE, fs |-> TRUE, link |-> TRUE],
      [vs |-> TRUE, fs |-> FALSE, link |-> TRUE],
      [vs |-> TRUE, fs |-> TRUE, link |-> FALSE] }

\* the client size of the canvas after the layout has enlarged it n times; a
\* canvas element starts with a 300 x 150 drawing buffer
ClientSize(n) == <<300 * (n + 1), 150 * (n + 1)>>

\* the driver outcome that matters in a step: none when nothing is composed
GpuChoices(composes) ==
    IF composes THEN GpuOutcomes ELSE {[vs |-> TRUE, fs |-> TRUE, link |-> TRUE]}

Obj(pairs) == [kind |-> "object", pairs |-> pairs]

\* partial maps given to updateParameters, as sequences of <<key, value>>
ParamInputs ==
    { << <<"morphFactor", 500>> >>,
      << <<"morphFactor", 2500>> >>,
      << <<"geometryType", "crystal">> >>,
      << <<"geometryType", "hypercube">> >>,
      << <<"audioLevels", Obj(<< <<"bass", 1000>> >>)>>,
         <<"colorScheme", Obj(<< <<"primary", <<0, 0, 0>> >> >>)>> >>,
      << <<"audioLevels", Obj(<< <<"bass", 0>> >>)>>,
         <<"colorScheme", Obj(<< <<"primary", <<1000, 200, 800>> >> >>)>> >> }

\* a geometry name _initGeometries does not register
CustomName == "custom"

\* the maps the caller that registers geometries gives to updateParameters:
\* the selection of its own name and of the default one, two keys of the
\* core's bookkeeping, a key the state does not have, and a grouped
\* parameter given as null and as a number
CallerInputs ==
    { << <<"geometryType", CustomName>> >>,
      << <<"geometryType", DefaultGeometry>> >>,
      << <<"needsShaderUpdate", TRUE>> >>,
      << <<"isRendering", TRUE>> >>,
      << <<"zoom", 1000>> >>,
      << <<"audioLevels", [kind |-> "null"]>> >>,
      << <<"audioLevels", [kind |-> "number", num |-> 1000]>> >> }

\* what callers hand to registerGeometry, as <<name, instance>>: a subclass
\* whose text lacks calculateLattice, a subclass whose text keeps an
\* injection marker, a subclass with a text of its own that has neither
\* flaw, and an object that is not a BaseGeometry
RegisterInputs ==
    { <<CustomName, [isBaseGeometry |-> TRUE, code |-> LacksLattice]>>,
      <<CustomName, [isBaseGeometry |-> TRUE, code |-> KeepsMarker]>>,
      <<CustomName, [isBaseGeometry |-> TRUE, code |-> CallerLattice]>>,
      <<CustomName, [isBaseGeometry |-> FALSE, code |-> CallerLattice]>> }

(***************************************************************************)
(* The state machine.                                                      *)
(***************************************************************************)
World ==
    [st |-> state, sm |-> shaderManager, gm |-> geometryManager,
     aPositionLoc |-> aPositionLoc,
     quadBuffer |-> quadBuffer, canvas |-> canvas, gl |-> gl,
     raf |-> rafQueue, timers |-> timers, clock |-> clock, obs |-> Obs0]

\* the world before the constructor body runs, at instant now
World0(now) ==
    [st |-> DEFAULT_STATE, sm |-> NewShaderManager, gm |-> NewGeometryManager,
     aPositionLoc |-> [loc |-> -1], quadBuffer |-> Null,
     canvas |-> [width |-> 300, height |-> 150, clientWidth |-> 300,
                 clientHeight |-> 150, resizes |-> 0, listeners |-> 1],
     gl |-> [lost |-> FALSE, epoch |-> 0, lostEventPending |-> FALSE],
     raf |-> <<>>, timers |-> [attempt |-> 0, retry |-> 0], clock |-> now,
     obs |-> Obs0]

\* the number of successful driver compiles of each stage identifier made
\* by the ShaderManager the core holds, after a step that ends in world w;
\* the count of a ShaderManager made in the step starts from nothing
CompilesAfter(old, w) ==
    LET before == IF w.obs.madeShaderManager THEN <<>> ELSE old
        Succeeded(id) ==
            Cardinality({i \in 1..Len(w.obs.compiled) :
                            w.obs.compiled[i] = <<id, TRUE>>})
        Before(id) == IF id \in DOMAIN before THEN before[id] ELSE 0
        Capped(n) == IF n > MaxCompiles THEN MaxCompiles ELSE n
    IN [id \in DOMAIN before \cup {w.obs.compiled[i][1] :
                                       i \in {j \in 1..Len(w.obs.compiled) :
                                                 w.obs.compiled[j][2]}} |->
           Capped(Before(id) + Succeeded(id))]

\* the program starts in the world w the constructor leaves
Constructed(w) ==
    /\ state = w.st
    /\ shaderManager = w.sm
    /\ geometryManager = w.gm
    /\ aPositionLoc = w.aPositionLoc
    /\ quadBuffer = w.quadBuffer
    /\ canvas = w.canvas
    /\ gl = w.gl
    /\ rafQueue = w.raf
    /\ timers = w.timers
    /\ clock = w.clock
    /\ lossNotice = "none"
    /\ attemptsMade = 0
    /\ selectionChanges = 0
    /\ stoppedByCaller = FALSE
    /\ compiles = CompilesAfter(<<>>, w)

Init ==
    \E gpu \in GpuOutcomes, now \in 1..MaxClock :
        Constructed(Constructor(World0(now), gpu))

\* the selection of a world: the pair a composition is made from
Selection(st) == <<st["geometryType"], st["projectionMethod"]>>

\* the number of times the selection has changed since the needs-recompile
\* flag was last clear, after a step that ends in world w
SelectionChangesAfter(w) ==
    IF ~w.st["needsShaderUpdate"] THEN 0
    ELSE IF Selection(w.st) # Selection(state) /\ selectionChanges < MaxSelections
    THEN selectionChanges + 1
    ELSE selectionChanges

\* the step ends in world w; a step that would leave more than MaxFrames
\* frame callbacks pending is outside the model
Set(w) ==
    /\ Len(w.raf) <= MaxFrames
    /\ state' = w.st
    /\ shaderManager' = w.sm
    /\ geometryManager' = w.gm
    /\ selectionChanges' = SelectionChangesAfter(w)
    /\ compiles' = CompilesAfter(compiles, w)
    /\ aPositionLoc' = w.aPositionLoc
    /\ quadBuffer' = w.quadBuffer
    /\ canvas' = w.canvas
    /\ gl' = w.gl
    /\ rafQueue' = w.raf
    /\ timers' = w.timers
    /\ clock' = w.clock

\* stoppedByCaller remembers that the caller's stop() has returned on a
\* running core and start() has not been called since
StartWith(gpu) ==
    /\ Set(start(World, gpu))
    /\ lossNotice' = "none"
    /\ stoppedByCaller' = FALSE
    /\ UNCHANGED attemptsMade

Start ==
    \E gpu \in GpuChoices(state["needsShaderUpdate"]) : StartWith(gpu)

Stop ==
    /\ Set(stop(World))
    /\ lossNotice' = "none"
    /\ stoppedByCaller' = (stoppedByCaller \/ state["isRendering"])
    /\ UNCHANGED attemptsMade

UpdateWith(newParams) ==
    Set(updateParameters(World, newParams))
        /\ UNCHANGED <<lossNotice, attemptsMade, stoppedByCaller>>

UpdateParameters == \E newParams \in ParamInputs : UpdateWith(newParams)

\* the world in which the oldest pending frame callback has been taken off
\* the scheduler's list, and the result of running it
FrameWorld == [World EXCEPT !.raf = Tail(@)]

FrameResult(gpu, drawThrows) == _render(FrameWorld, clock, gpu, drawThrows)

FrameWith(gpu, drawThrows) ==
    /\ rafQueue # <<>>
    /\ Set(FrameResult(gpu, drawThrows))
    /\ UNCHANGED <<lossNotice, attemptsMade, stoppedByCaller>>

\* the scheduler runs the oldest pending frame callback
Frame ==
    \E gpu \in GpuChoices(state["needsShaderUpdate"]), drawThrows \in BOOLEAN :
        FrameWith(gpu, drawThrows)

RecoveryResult == RecoveryCallback([World EXCEPT !.timers.attempt = @ - 1])

\* a pending 500 ms timer fires: one more reacquisition attempt is made
RecoveryTimer ==
    /\ timers.attempt > 0
    /\ Set(RecoveryResult)
    /\ attemptsMade' = attemptsMade + 1
    /\ UNCHANGED <<lossNotice, stoppedByCaller>>

RetryResult == _attemptContextRecovery([World EXCEPT !.timers.retry = @ - 1])

\* a pending 1000 ms timer fires
RetryTimer ==
    /\ timers.retry > 0
    /\ Set(RetryResult)
    /\ UNCHANGED <<lossNotice, attemptsMade, stoppedByCaller>>

\* the GPU context is lost; the platform queues the webglcontextlost event
LoseContext ==
    /\ ~gl.lost
    /\ gl.epoch < MaxLosses
    /\ Set([World EXCEPT !.gl.lost = TRUE, !.gl.lostEventPending = TRUE])
    /\ UNCHANGED <<lossNotice, attemptsMade, stoppedByCaller>>

\* the webglcontextlost listener: event.preventDefault(); this.stop().
\* lossNotice remembers whether the core was running when it was told, until
\* the caller starts or stops the core or the context is restored.
ContextLostEvent ==
    /\ gl.lostEventPending
    /\ Set(stop([World EXCEPT !.gl.lostEventPending = FALSE]))
    /\ lossNotice' = IF state["isRendering"] THEN "running" ELSE "stopped"
    /\ UNCHANGED <<attemptsMade, stoppedByCaller>>

RECURSIVE RunRestoreListeners(_, _, _)
RunRestoreListeners(w, n, gpu) ==
    IF n = 0 THEN w
    ELSE RunRestoreListeners(_reinitializeAfterContextRestore(w, gpu),
                             n - 1, gpu)

RestoreResult(gpu) ==
    RunRestoreListeners([World EXCEPT !.gl.lost = FALSE, !.gl.epoch = @ + 1],
                        canvas.listeners, gpu)

RestoreWith(gpu) ==
    /\ gl.lost
    /\ ~gl.lostEventPending
    /\ Set(RestoreResult(gpu))
    /\ lossNotice' = "none"
    /\ UNCHANGED <<attemptsMade, stoppedByCaller>>

\* the platform restores the context (the lost event was delivered and its
\* default prevented) and dispatches webglcontextrestored to every listener
ContextRestoredEvent == \E gpu \in GpuOutcomes : RestoreWith(gpu)

\* the layout enlarges the canvas
Resize ==
    /\ canvas.resizes < MaxResizes
    /\ Set([World EXCEPT
               !.canvas.resizes = @ + 1,
               !.canvas.clientWidth = ClientSize(canvas.resizes + 1)[1],
               !.canvas.clientHeight = ClientSize(canvas.resizes + 1)[2]])
    /\ UNCHANGED <<lossNotice, attemptsMade, stoppedByCaller>>

Next ==
    \/ Start
    \/ Stop
    \/ UpdateParameters
    \/ Frame
    \/ RecoveryTimer
    \/ RetryTimer
    \/ LoseContext
    \/ ContextLostEvent
    \/ ContextRestoredEvent
    \/ Resize

Spec == Init /\ [][Next]_vars

(***************************************************************************)
(* The core with a caller that registers geometries, selects a name of its *)
(* own and passes maps with other keys, on a context that is never lost.   *)
(***************************************************************************)
RegisterWith(name, instance) ==
    /\ geometryManager' = registerGeometry(geometryManager, name, instance)
    /\ UNCHANGED <<state, shaderManager, aPositionLoc, quadBuffer, canvas, gl,
                   rafQueue, timers, clock, lossNotice, attemptsMade,
                   selectionChanges, stoppedByCaller, compiles>>

\* core.geometryManager.registerGeometry(name, instance)
RegisterGeometry == \E r \in RegisterInputs : RegisterWith(r[1], r[2])

UpdateFromCaller == \E newParams \in CallerInputs : UpdateWith(newParams)

RegistryNext ==
    \/ Start
    \/ Stop
    \/ UpdateFromCaller
    \/ RegisterGeometry
    \/ Frame

RegistrySpec == Init /\ [][RegistryNext]_vars

(***************************************************************************)
(* Vocabulary of the properties.                                           *)
(***************************************************************************)
\* the recovery has given up: the counter is at the ceiling and no timer of
\* the recovery is pending (a recovery ends only in the ceiling branch)
Failed ==
    /\ RecoveryAttempts(World) >= RecoveryCeiling
    /\ timers.attempt = 0
    /\ timers.retry = 0

\* the state keys whose uniform is a single float
ScalarParameters ==
    {"dimensions", "morphFactor", "rotationSpeed", "universeModifier",
     "patternIntensity", "gridDensity", "lineThickness", "shellWidth",
     "tetraThickness", "glitchIntensity", "colorShift"}

\* the interaction channels and the colours, as <<state key, sub-key>>
Channels ==
    {<<"audioLevels", "bass">>, <<"audioLevels", "mid">>,
     <<"audioLevels", "high">>, <<"colorScheme", "primary">>,
     <<"colorScheme", "secondary">>, <<"colorScheme", "background">>}

\* the uniform _setUniforms uploads a channel or a colour to
ChannelUniform(key, sub) ==
    CASE key = "audioLevels" /\ sub = "bass" -> "u_audioBass"
      [] key = "audioLevels" /\ sub = "mid" -> "u_audioMid"
      [] key = "audioLevels" /\ sub = "high" -> "u_audioHigh"
      [] key = "colorScheme" /\ sub = "primary" -> "u_primaryColor"
      [] key = "colorScheme" /\ sub = "secondary" -> "u_secondaryColor"
      [] OTHER -> "u_backgroundColor"

\* the uniforms of the render parameters whose stored value differs between
\* the states old and new
ChangedUniforms(old, new) ==
    UNION {UniformNamesOf(k) : k \in {x \in ScalarParameters : old[x] # new[x]}}
    \cup {ChannelUniform(c[1], c[2]) :
             c \in {d \in Channels :
                       GetKey(old[d[1]], d[2]) # GetKey(new[d[1]], d[2])}}

\* the range declared for u_morphFactor, in thousandths
MorphFactorMin == 0

MorphFactorMax == 2000

\* the keys of the state that hold a render parameter: those with a uniform
\* and the two selections
RenderParameters ==
    (DOMAIN DEFAULT_STATE \ NonUniformKeys)
        \cup {"geometryType", "projectionMethod"}

\* every value newParams carries is the value the state already holds
WritesCurrentValues(newParams) ==
    \A i \in 1..Len(newParams) :
        LET key == newParams[i][1]
            value == newParams[i][2]
        IN IF key \in {"audioLevels", "colorScheme"}
           THEN /\ value.kind = "object"
                /\ \A j \in 1..Len(value.pairs) :
                       GetKey(state[key], value.pairs[j][1]) = value.pairs[j][2]
           ELSE key \in DOMAIN state /\ state[key] = value

(***************************************************************************)
(* Properties.                                                             *)
(***************************************************************************)
\* C1: when a tick has found the context lost while the core was running and
\* a reacquisition attempt then runs with a live context, the attempt leaves
\* the core running with a frame callback scheduled and the dirty set equal
\* to the full set of declared uniforms.
C1_RecoveryReturnsToRunning ==
    (timers.attempt > 0 /\ ~gl.lost) =>
        /\ RecoveryResult.st["isRendering"]
        /\ RecoveryResult.raf # <<>>
        /\ RecoveryResult.st["_dirtyUniforms"] = DeclaredUniforms

\* C2: in every reachable state at most one frame callback is pending in
\* the scheduler.
C2_OneFrameCallbackPending == Len(rafQueue) <= 1

\* C3: the recovery counter never exceeds 3; every count of the counter is
\* one reacquisition attempt, made or pending; when the recovery is over
\* exactly 3 attempts have been made; and the failure of the third attempt
\* stops the core, invokes onError once and schedules nothing more.
C3_ThreeAttemptsThenStopped ==
    /\ RecoveryAttempts(World) <= RecoveryCeiling
    /\ attemptsMade + timers.attempt = RecoveryAttempts(World)
    /\ (RecoveryAttempts(World) > 0 /\ timers.attempt = 0 /\ timers.retry = 0)
           => attemptsMade = RecoveryCeiling
    /\ (attemptsMade = RecoveryCeiling - 1 /\ timers.attempt > 0)
           => /\ ~RecoveryResult.st["isRendering"]
              /\ RecoveryResult.obs.onError = 1
              /\ RecoveryResult.obs.gaveUp
              /\ RecoveryResult.timers.attempt = 0
              /\ RecoveryResult.timers.retry = timers.retry

\* the third attempt has failed: three attempts were made after a loss found
\* by a tick, none is pending, and the core is stopped
C3_Witness ==
    /\ attemptsMade = RecoveryCeiling
    /\ RecoveryAttempts(World) = RecoveryCeiling
    /\ timers.attempt = 0
    /\ timers.retry = 0
    /\ gl.lost
    /\ ~state["isRendering"]

\* C4: the Failed state is terminal: in every state in which the recovery
\* has given up, the core does not report running and no frame callback is
\* scheduled, whatever calls and events followed the failure.
C4_FailedIsTerminal ==
    Failed => (~state["isRendering"] /\ rafQueue = <<>>)

\* C5: when the platform has notified the loss and then restores the
\* context, the restore handler leaves the core running with a frame
\* callback scheduled if it was running when notified, and stopped if it
\* was not.
C5_RestoreResumes ==
    (gl.lost /\ ~gl.lostEventPending) =>
        \A gpu \in GpuOutcomes :
            /\ lossNotice = "running" =>
                   /\ RestoreResult(gpu).st["isRendering"]
                   /\ RestoreResult(gpu).raf # <<>>
            /\ lossNotice = "stopped" => ~RestoreResult(gpu).st["isRendering"]

\* C6: no composition returns a compiled stage that was cached under an
\* earlier context: not the one the restore handler runs, and not a later
\* one run by start() or by a tick.
C6_NoStaleHandleReturned ==
    \A gpu \in GpuOutcomes :
        /\ ~start(World, gpu).obs.staleReturned
        /\ rafQueue # <<>> => ~FrameResult(gpu, FALSE).obs.staleReturned
        /\ (gl.lost /\ ~gl.lostEventPending)
               => ~RestoreResult(gpu).obs.staleReturned

\* C7: when stop() is called while a recovery is in progress, no timer of
\* the recovery remains scheduled after it returns.
C7_StopCancelsRecovery ==
    (timers.attempt + timers.retry > 0) =>
        /\ stop(World).timers.attempt = 0
        /\ stop(World).timers.retry = 0

C9_ChangedParameterIsDirty ==
    \A newParams \in ParamInputs :
        ChangedUniforms(state, updateParameters(World, newParams).st)
            \subseteq updateParameters(World, newParams).st["_dirtyUniforms"]

\* C10: in every reachable state, an updateParameters call whose values are
\* all the values already stored leaves the dirty set and the
\* needsShaderUpdate flag as they were.
C10_NoOpWriteChangesNothing ==
    \A newParams \in ParamInputs :
        WritesCurrentValues(newParams) =>
            /\ updateParameters(World, newParams).st["_dirtyUniforms"]
                   = state["_dirtyUniforms"]
            /\ updateParameters(World, newParams).st["needsShaderUpdate"]
                   = state["needsShaderUpdate"]

\* values written earlier are written again in a state where their uniforms
\* are clean and no recompile is due: a scalar and a channel
C10_Witness ==
    /\ state["morphFactor"] = 2500
    /\ state["geometryType"] = "hypercube"
    /\ GetKey(state["audioLevels"], "bass") = 1000
    /\ "u_morphFactor" \notin state["_dirtyUniforms"]
    /\ "u_audioBass" \notin state["_dirtyUniforms"]
    /\ ~state["needsShaderUpdate"]
    /\ \E newParams \in ParamInputs : WritesCurrentValues(newParams)

\* C11: in every reachable state the stored morph factor lies within the
\* range declared for it: a value outside the range has been clamped when
\* it was written.
C11_StoredValuesWithinRange ==
    state["morphFactor"] \in MorphFactorMin..MorphFactorMax

\* C12: in every reachable state, an updateParameters call whose keys are
\* all keys that are not render parameters leaves the whole state as it was:
\* every stored value, the dirty set and the needsShaderUpdate flag.
C12_UndeclaredKeysChangeNothing ==
    \A newParams \in CallerInputs :
        (\A i \in 1..Len(newParams) : newParams[i][1] \notin RenderParameters)
            => updateParameters(World, newParams).st = state

\* C13: in every reachable state, no updateParameters call throws.
C13_UpdateNeverThrows ==
    \A newParams \in CallerInputs :
        ~updateParameters(World, newParams).obs.threw

\* C14: in every reachable state in which the selection has changed at least
\* twice since the last composition and a tick of the running core is due
\* on a live context, that tick composes the program exactly once, from the
\* geometry and the projection selected last, and a program it installs is
\* built from the texts registered for that pair.
C14_OneCompositionPerTick ==
    (selectionChanges >= 2 /\ rafQueue # <<>> /\ state["isRendering"]
        /\ ~gl.lost) =>
        \A gpu \in GpuOutcomes, drawThrows \in BOOLEAN :
            /\ FrameResult(gpu, drawThrows).obs.composed = 1
            /\ FrameResult(gpu, drawThrows).obs.composedFrom
                   = << Selection(state) >>
            /\ ~FrameResult(gpu, drawThrows).obs.compositionFailed =>
                   /\ ~FrameResult(gpu, drawThrows).st["needsShaderUpdate"]
                   /\ Lookup(FrameResult(gpu, drawThrows).sm.programs,
                             state["shaderProgramName"]).src
                          = <<getGeometry(geometryManager, state["geometryType"]),
                              getProjection(state["projectionMethod"])>>

\* the selection has changed twice since the last composition, back to the
\* pair the installed program was built from, and a tick is due
C14_Witness ==
    /\ selectionChanges >= 2
    /\ rafQueue # <<>>
    /\ state["isRendering"]
    /\ ~gl.lost
    /\ Truthy(Lookup(shaderManager.programs, state["shaderProgramName"]))
    /\ Lookup(shaderManager.programs, state["shaderProgramName"]).src[1]
           = state["geometryType"]

WorkingGpu == [vs |-> TRUE, fs |-> TRUE, link |-> TRUE]

\* C16: in every reachable state in which the selected geometry name is not
\* registered, a recompile is due and a tick of the running core is due,
\* that tick fails to compose the program, invokes onError and leaves the
\* core stopped, whatever the driver does.
C16_UnregisteredNameFailsTick ==
    (rafQueue # <<>> /\ state["isRendering"] /\ state["needsShaderUpdate"]
        /\ state["geometryType"] \notin DOMAIN geometryManager.geometries) =>
        \A gpu \in GpuOutcomes, drawThrows \in BOOLEAN :
            /\ FrameResult(gpu, drawThrows).obs.compositionFailed
            /\ FrameResult(gpu, drawThrows).obs.onError >= 1
            /\ ~FrameResult(gpu, drawThrows).st["isRendering"]

C18_InvalidGeometryNotRegistered ==
    \A name \in DOMAIN geometryManager.geometries :
        IncludesCalculateLattice(geometryManager.geometries[name])

\* the installed program is a live program linked from the texts of the
\* selected pair
ProgramOfSelectionInstalled ==
    /\ Truthy(Lookup(shaderManager.programs, state["shaderProgramName"]))
    /\ Lookup(shaderManager.programs, state["shaderProgramName"]).ctx = gl.epoch
    /\ Lookup(shaderManager.programs, state["shaderProgramName"]).src
           = <<getGeometry(geometryManager, state["geometryType"]),
               getProjection(state["projectionMethod"])>>

\* C19: in every reachable state in which a tick is due, the tick deletes
\* no linked program, whatever pair it composes, and links nothing when a
\* live program linked for the selected pair exists.
C19_ProgramsCachedPerPair ==
    (rafQueue # <<>> /\ ~gl.lost) =>
        \A gpu \in GpuOutcomes, drawThrows \in BOOLEAN :
            /\ FrameResult(gpu, drawThrows).obs.deletedPrograms = {}
            /\ ProgramOfSelectionInstalled =>
                   FrameResult(gpu, drawThrows).obs.linked = 0

\* a tick of the running core that is due and composes installs a program
\* built from the text registered for the selected geometry
ComposesFromRegisteredText ==
    (rafQueue # <<>> /\ state["isRendering"] /\ state["needsShaderUpdate"]) =>
        \A gpu \in GpuOutcomes, drawThrows \in BOOLEAN :
            ~FrameResult(gpu, drawThrows).obs.compositionFailed =>
                Lookup(FrameResult(gpu, drawThrows).sm.programs,
                       state["shaderProgramName"]).src[1]
                    = getGeometry(geometryManager, state["geometryType"])

\* C20: no step changes the text registered under a name that is already
\* registered, and in every reachable state a tick that composes builds the
\* program from the text registered for the selected geometry.
C20_RegisteredDefinitionNeverChanges ==
    /\ [][\A name \in DOMAIN geometryManager.geometries :
              geometryManager'.geometries[name]
                  = geometryManager.geometries[name]]_vars
    /\ []ComposesFromRegisteredText

\* the run of a handler that ended in world w executed part of a tick body:
\* the uniform upload, the clear or the draw call
RanTickBody(w) == w.obs.uploadRan \/ w.obs.cleared \/ w.obs.drew

\* C21: in every reachable state, stop() on a core that is not running
\* changes nothing, stop() leaves the core not running, a second stop()
\* changes nothing more, and while the caller's stop() has returned on a
\* running core and start() has not been called since, no frame callback
\* that is due uploads a uniform, clears or draws.
C21_StopIdempotentAndEffective ==
    /\ ~state["isRendering"] => stop(World) = World
    /\ ~stop(World).st["isRendering"]
    /\ stop(stop(World)) = stop(World)
    /\ (stoppedByCaller /\ rafQueue # <<>>) =>
           \A gpu \in GpuOutcomes, drawThrows \in BOOLEAN :
               ~RanTickBody(FrameResult(gpu, drawThrows))

\* the state st holds every value that newParams carries for a key of the
\* state: a scalar as given, a group with the given sub-values
HoldsValues(st, newParams) ==
    \A i \in 1..Len(newParams) :
        LET key == newParams[i][1]
            value == newParams[i][2]
        IN \/ key \notin DOMAIN st
           \/ IF key \in {"audioLevels", "colorScheme"}
              THEN value.kind = "object" =>
                       \A j \in 1..Len(value.pairs) :
                           GetKey(st[key], value.pairs[j][1]) = value.pairs[j][2]
              ELSE st[key] = value

\* the tick that is due in world w, if one is due, executes no tick body
NoTickBodyDue(w) ==
    w.raf # <<>> =>
        \A gpu \in GpuOutcomes, drawThrows \in BOOLEAN :
            ~RanTickBody(_render([w EXCEPT !.raf = Tail(@), !.obs = Obs0],
                                 w.clock, gpu, drawThrows))

\* C22: in every reachable state in which the recovery has given up, every
\* updateParameters call returns normally, stores the values it is given,
\* uploads and draws nothing, schedules nothing, and leaves the core such
\* that a frame callback still due executes no tick body.
C22_UpdateAfterFailureIsInert ==
    Failed =>
        \A newParams \in ParamInputs \cup CallerInputs :
            /\ ~updateParameters(World, newParams).obs.threw
            /\ HoldsValues(updateParameters(World, newParams).st, newParams)
            /\ ~RanTickBody(updateParameters(World, newParams))
            /\ updateParameters(World, newParams).raf = rafQueue
            /\ updateParameters(World, newParams).timers = timers
            /\ NoTickBodyDue(updateParameters(World, newParams))

\* the uniforms that have a location in the program installed in world w
InstalledUniforms(w) ==
    ActiveUniforms(Lookup(w.sm.programs, w.st["shaderProgramName"]).src[1],
                   Lookup(w.sm.programs, w.st["shaderProgramName"]).src[2])

\* _updateShaderIfNeeded, where it composes and the composition succeeds,
\* clears the flag, makes the new program the current one and leaves every
\* declared uniform in the dirty set
SwapMarksEverything ==
    state["needsShaderUpdate"] =>
        \A gpu \in GpuOutcomes :
            _updateShaderIfNeeded(World, gpu).ret =>
                /\ ~_updateShaderIfNeeded(World, gpu).w.st["needsShaderUpdate"]
                /\ _updateShaderIfNeeded(World, gpu).w.sm.currentProgramName
                       = state["shaderProgramName"]
                /\ _updateShaderIfNeeded(World, gpu).w.st["_dirtyUniforms"]
                       = DeclaredUniforms

\* a tick is due that will compose
TickComposes ==
    /\ rafQueue # <<>>
    /\ state["isRendering"]
    /\ ~gl.lost
    /\ state["needsShaderUpdate"]

\* C23 as stated: the flag is cleared and every declared uniform is dirty
\* after a successful composition, and the tick that composed uploads every
\* declared uniform.
C23_SwapUploadsEveryParameter ==
    /\ SwapMarksEverything
    /\ TickComposes =>
           \A gpu \in GpuOutcomes, drawThrows \in BOOLEAN :
               ~FrameResult(gpu, drawThrows).obs.compositionFailed =>
                   FrameResult(gpu, drawThrows).obs.uploaded = DeclaredUniforms

\* C23, amended: the flag is cleared and every declared uniform is dirty
\* after a successful composition, and the tick that composed starts its
\* upload with every declared uniform dirty, uploads every uniform that has
\* a location in the new program and leaves the others in the dirty set.
C23_SwapUploadsEveryLocatedParameter ==
    /\ SwapMarksEverything
    /\ TickComposes =>
           \A gpu \in GpuOutcomes, drawThrows \in BOOLEAN :
               ~FrameResult(gpu, drawThrows).obs.compositionFailed =>
                   /\ ~FrameResult(gpu, drawThrows).st["needsShaderUpdate"]
                   /\ FrameResult(gpu, drawThrows).obs.dirtyAtUpload
                          = DeclaredUniforms
                   /\ FrameResult(gpu, drawThrows).obs.uploaded
                          = InstalledUniforms(FrameResult(gpu, drawThrows))
                   /\ FrameResult(gpu, drawThrows).st["_dirtyUniforms"]
                          = DeclaredUniforms
                                \ InstalledUniforms(FrameResult(gpu, drawThrows))

\* a tick is due that will replace the installed program by one for another
\* geometry, while some uniforms are clean
C23_Witness ==
    /\ TickComposes
    /\ Truthy(Lookup(shaderManager.programs, state["shaderProgramName"]))
    /\ Lookup(shaderManager.programs, state["shaderProgramName"]).src[1]
           # getGeometry(geometryManager, state["geometryType"])
    /\ state["_dirtyUniforms"] # DeclaredUniforms
    /\ "u_audioBass" \notin state["_dirtyUniforms"]

\* C24: start() on a stopped core whose flag is set composes before it
\* schedules anything; if the composition succeeds the core is running with
\* exactly one frame callback scheduled, if it fails the core is not running
\* and no frame callback is scheduled; start() on a running core changes
\* nothing.
C24_StartComposesThenSchedulesOne ==
    \A gpu \in GpuOutcomes :
        /\ state["isRendering"] => start(World, gpu) = World
        /\ (~state["isRendering"] /\ state["needsShaderUpdate"]) =>
               /\ start(World, gpu).obs.composed = 1
               /\ IF start(World, gpu).obs.compositionFailed
                  THEN /\ ~start(World, gpu).st["isRendering"]
                       /\ start(World, gpu).obs.requested = 0
                       /\ start(World, gpu).raf = <<>>
                  ELSE /\ start(World, gpu).st["isRendering"]
                       /\ start(World, gpu).obs.requested = 1
                       /\ Len(start(World, gpu).raf) = 1

(***************************************************************************)
(* The core with a caller that also replaces the base fragment template.   *)
(***************************************************************************)
\* templates that lack one injection point, and the built-in one
TemplateInputs ==
    {[geometryPoint |-> FALSE, projectionPoint |-> TRUE],
     [geometryPoint |-> TRUE, projectionPoint |-> FALSE],
     BaseFragmentShaderSource}

RegisterSourceWith(source) ==
    /\ shaderManager' = _registerShaderSource(shaderManager, source)
    /\ UNCHANGED <<state, geometryManager, aPositionLoc, quadBuffer, canvas,
                   gl, rafQueue, timers, clock, lossNotice, attemptsMade,
                   selectionChanges, stoppedByCaller, compiles>>

\* core.shaderManager._registerShaderSource('base-fragment', source, type)
RegisterShaderSource == \E source \in TemplateInputs : RegisterSourceWith(source)

TemplateNext ==
    \/ Start
    \/ Stop
    \/ UpdateFromCaller
    \/ RegisterGeometry
    \/ RegisterShaderSource
    \/ Frame

TemplateSpec == Init /\ [][TemplateNext]_vars

\* the composition of the selected pair in the current state
ComposeSelected(gpu) ==
    createDynamicProgram(World, state["shaderProgramName"],
                         state["geometryType"], state["projectionMethod"], gpu)

\* the run compiled (handed to the driver) a fragment stage
CompiledFragment(w) ==
    \E i \in 1..Len(w.obs.compiled) : w.obs.compiled[i][1][1] = "fragment"

LeftoverPointFails ==
    \A gpu \in GpuOutcomes :
        (/\ shaderManager.shaderSources.geometryPoint
         /\ IncludesInjectionPoint(
                getGeometry(geometryManager, state["geometryType"]))) =>
            /\ ComposeSelected(gpu).ret = Null
            /\ ~CompiledFragment(ComposeSelected(gpu).w)

\* the identifiers of the stages a composition of the selected pair asks for
SelectedStages ==
    {baseVertexShaderName,
     <<"fragment", state["geometryType"], state["projectionMethod"]>>}

\* the run handed stage id to the driver's compiler
Compiled(w, id) ==
    \E i \in 1..Len(w.obs.compiled) : w.obs.compiled[i][1] = id

\* C26: no stage identifier is successfully compiled more than once and a
\* stage that compiled is in the cache; a composition reuses a cached stage
\* without compiling it; a stage whose compile failed is not cached and the
\* next composition compiles it again.
C26_StagesCompiledAtMostOnce ==
    /\ \A id \in DOMAIN compiles :
           /\ compiles[id] <= 1
           /\ compiles[id] = 1 =>
                  Truthy(Lookup(shaderManager.compiledShaders, id))
    /\ \A gpu \in GpuOutcomes, id \in SelectedStages :
           /\ Truthy(Lookup(shaderManager.compiledShaders, id)) =>
                  /\ ~Compiled(ComposeSelected(gpu).w, id)
                  /\ Lookup(ComposeSelected(gpu).w.sm.compiledShaders, id)
                         = Lookup(shaderManager.compiledShaders, id)
           /\ (\E i \in 1..Len(ComposeSelected(gpu).w.obs.compiled) :
                   ComposeSelected(gpu).w.obs.compiled[i] = <<id, FALSE>>) =>
                  /\ ~Truthy(Lookup(ComposeSelected(gpu).w.sm.compiledShaders,
                                    id))
                  /\ \A again \in GpuOutcomes :
                         Compiled(
                             createDynamicProgram(
                                 [ComposeSelected(gpu).w EXCEPT !.obs = Obs0],
                                 state["shaderProgramName"],
                                 state["geometryType"],
                                 state["projectionMethod"], again).w,
                             id)

\* the pair whose fragment stage is cached is about to be composed again, and
\* a stage whose compile failed is in the cache as null
C26_Witness ==
    /\ state["needsShaderUpdate"]
    /\ state["isRendering"]
    /\ rafQueue # <<>>
    /\ \A id \in SelectedStages :
           /\ Truthy(Lookup(shaderManager.compiledShaders, id))
           /\ id \in DOMAIN compiles
           /\ compiles[id] = 1
    /\ \E id \in DOMAIN shaderManager.compiledShaders :
           shaderManager.compiledShaders[id] = Null

\* the stored value of every render parameter is the one the state holds
KeepsParameters(w) == \A key \in RenderParameters : w.st[key] = state[key]

\* C27: no step of loss detection (the tick that finds the context lost and
\* the loss event), of a recovery attempt, of a failed recovery and its
\* retry, or of the context restore changes a stored parameter value.
C27_RecoveryKeepsParameters ==
    /\ (rafQueue # <<>> /\ gl.lost) =>
           \A gpu \in GpuOutcomes, drawThrows \in BOOLEAN :
               KeepsParameters(FrameResult(gpu, drawThrows))
    /\ gl.lostEventPending =>
           KeepsParameters(stop([World EXCEPT !.gl.lostEventPending = FALSE]))
    /\ timers.attempt > 0 => KeepsParameters(RecoveryResult)
    /\ timers.retry > 0 => KeepsParameters(RetryResult)
    /\ (gl.lost /\ ~gl.lostEventPending) =>
           \A gpu \in GpuOutcomes : KeepsParameters(RestoreResult(gpu))

\* a reacquisition attempt is due on a lost context while the store holds
\* values the caller wrote: the selection has changed and waits for a
\* composition, and a channel level differs from its default
C27_Witness ==
    /\ gl.lost
    /\ timers.attempt > 0
    /\ state["isRendering"]
    /\ selectionChanges >= 1
    /\ state["geometryType"] # DEFAULT_STATE["geometryType"]
    /\ state["audioLevels"] # DEFAULT_STATE["audioLevels"]

(***************************************************************************)
(* The core on a context that is never lost, with a driver that composes   *)
(* every program and draws without error, under a frame scheduler that     *)
(* runs every callback it was asked to run.                                *)
(***************************************************************************)
SteadyStart == StartWith(WorkingGpu)

SteadyFrame == FrameWith(WorkingGpu, FALSE)

SteadyNext ==
    \/ SteadyStart
    \/ Stop
    \/ UpdateParameters
    \/ SteadyFrame

\* the lists of pending frame requests
FrameQueues ==
    UNION {[1..n -> 1..(MaxFrames + 1)] : n \in 0..MaxFrames}

\* SteadyFrame as the scheduler's list shows it: the oldest request leaves
\* the list and the list is not left empty.  Of the steps of SteadyNext
\* these are the steps of SteadyFrame, and one is possible whenever a
\* request is pending.
FrameTaken ==
    /\ rafQueue # <<>>
    /\ rafQueue' \in FrameQueues \ {<<>>}
    /\ \A i \in 1..Len(rafQueue') : rafQueue'[i] # Head(rafQueue)

\* requestAnimationFrame runs a pending callback at the next repaint: a
\* request does not stay pending for ever
SteadySpec == Init /\ [][SteadyNext]_vars /\ WF_rafQueue(FrameTaken)

\* a tick that executes on the running core requests exactly one frame and
\* leaves the core running with that one frame pending
TickSchedulesOneNext ==
    (state["isRendering"] /\ rafQueue # <<>>) =>
        /\ Len(rafQueue) = 1
        /\ FrameResult(WorkingGpu, FALSE).obs.requested = 1
        /\ FrameResult(WorkingGpu, FALSE).st["isRendering"]
        /\ FrameResult(WorkingGpu, FALSE).raf
               = <<FrameResult(WorkingGpu, FALSE).st["animationFrameId"]>>
        /\ FrameResult(WorkingGpu, FALSE).st["animationFrameId"]
               # state["animationFrameId"]

\* C28: while the context is not lost and no composition or draw fails,
\* every tick of the running core schedules exactly one next tick, and
\* under a fair scheduler the running core always has a frame pending and
\* the tick for it occurs (the stored request id is replaced) unless the
\* core is stopped.
C28_TicksKeepOccurring ==
    /\ [](TickSchedulesOneNext
            /\ (state["isRendering"] => rafQueue # <<>>))
    /\ \A id \in 1..(MaxFrames + 1) :
           (state["isRendering"] /\ state["animationFrameId"] = id)
               ~> (~state["isRendering"] \/ state["animationFrameId"] # id)

\* a tick has run on the running core and its successor is pending: start()
\* and stop() never leave the request id 2 in the state
C28_Witness ==
    /\ state["isRendering"]
    /\ rafQueue = <<2>>
    /\ state["animationFrameId"] = 2
    /\ ~gl.lost

\* the keys of the state that hold the core's bookkeeping of its lifecycle
LifecycleKeys ==
    {"isRendering", "animationFrameId", "time", "startTime",
     "shaderProgramName", "callbacks"}

\* C29: for every input map updateParameters leaves the running flag, the
\* stored frame request id, the elapsed time, the program name and the
\* callbacks as they are, and a stopped core can be started after it:
\* start() then leaves the core running with a frame requested unless the
\* composition it makes fails.
C29_UpdateKeepsLifecycle ==
    \A newParams \in ParamInputs \cup CallerInputs :
        /\ \A key \in LifecycleKeys :
               updateParameters(World, newParams).st[key] = state[key]
        /\ updateParameters(World, newParams).raf = rafQueue
        /\ ~state["isRendering"] =>
               \/ start([updateParameters(World, newParams) EXCEPT !.obs = Obs0],
                        WorkingGpu).obs.compositionFailed
               \/ /\ start([updateParameters(World, newParams)
                                EXCEPT !.obs = Obs0],
                           WorkingGpu).st["isRendering"]
                  /\ start([updateParameters(World, newParams)
                                EXCEPT !.obs = Obs0],
                           WorkingGpu).obs.requested = 1

\* C30: at the end of every tick that completes (it reached the clear and
\* the draw), the stored resolution is the drawing-buffer size of the
\* canvas, also in the first tick after construction and when the size of
\* the canvas never changes.
C30_ResolutionTracksCanvas ==
    rafQueue # <<>> =>
        \A gpu \in GpuOutcomes, drawThrows \in BOOLEAN :
            FrameResult(gpu, drawThrows).obs.cleared =>
                FrameResult(gpu, drawThrows).st["resolution"]
                    = <<FrameResult(gpu, drawThrows).canvas.width,
                        FrameResult(gpu, drawThrows).canvas.height>>

\* the part that holds: a completed tick that finds the drawing buffer and
\* the client size different stores the client size
ResizedTickStoresSize ==
    (rafQueue # <<>>
     /\ (canvas.width # canvas.clientWidth
         \/ canvas.height # canvas.clientHeight)) =>
        \A gpu \in GpuOutcomes, drawThrows \in BOOLEAN :
            FrameResult(gpu, drawThrows).obs.cleared =>
                /\ FrameResult(gpu, drawThrows).st["resolution"]
                       = <<canvas.clientWidth, canvas.clientHeight>>
                /\ FrameResult(gpu, drawThrows).canvas.width
                       = canvas.clientWidth
                /\ FrameResult(gpu, drawThrows).canvas.height
                       = canvas.clientHeight

====
